---- MODULE Spec2Model ----
(***************************************************************************)
(* The identifier-tree builder of packages/utils (toIdSchema and its       *)
(* recursive helper toIdSchemaInternal) as a call-stack machine, and the   *)
(* event reports of the SelectWidget (antd) and RadioWidget (mui).         *)
(*                                                                         *)
(* JSON objects are TLA+ functions from key to value, so "key in obj" is   *)
(* key \in DOMAIN obj.  JavaScript strings that the code concatenates      *)
(* (ids, prefixes, separators, property names) are sequences of one-       *)
(* character strings, so + is \o and "contains" is definable.              *)
(***************************************************************************)
EXTENDS Integers, Sequences, FiniteSets, TLC

VARIABLES
  args,       \* the arguments of the top-level toIdSchema call
  phase,      \* "idle" before the call, "running", "done" after it returned
  stack,      \* the call stack of toIdSchemaInternal frames, top last
  heap,       \* the array objects: a _recurseList is a reference into it
  calls,      \* the schemas retrieveSchema has been called on
  result,     \* what the top-level call returned
  wprops,     \* the props a widget was rendered with
  reports     \* the calls a widget made on onChange / onBlur / onFocus

vars == <<args, phase, stack, heap, calls, result, wprops, reports>>

-----------------------------------------------------------------------------
(* Bounds of the model *)

\* the most properties a generated object schema declares
MaxProps == 2
\* the deepest call stack the model follows (the code's recursion is capped
\* by the JavaScript stack; the builder stays well below this)
MaxStack == 12
\* the most reports a widget session records
MaxReports == 3
\* the number of enum options of the rendered widget
MaxEnum == 2

-----------------------------------------------------------------------------
(* Constants of the code *)

REF_KEY == "$ref"
DEPENDENCIES_KEY == "dependencies"
ALL_OF_KEY == "allOf"
ITEMS_KEY == "items"
PROPERTIES_KEY == "properties"
ID_KEY == <<"$", "i", "d">>

\* the default values of toIdSchema's idPrefix and idSeparator parameters
DefaultIdPrefix == <<"r", "o", "o", "t">>
DefaultIdSeparator == <<"_">>

\* String(obj) of a plain object, what + makes of an object operand
ObjectString == <<"[", "o", "b", "j", "e", "c", "t", " ", "O", "b", "j", "e", "c", "t", "]">>

\* an optional argument: undefined, or a string
Undefined == [undef |-> TRUE]
Some(s) == [str |-> s]

\* a parameter default (idPrefix = 'root'): applies to undefined only
Default(arg, d) == IF arg = Undefined THEN d ELSE arg.str

\* a || b on an optional string: undefined and '' are falsy
OrElse(a, b) == IF "str" \in DOMAIN a /\ a.str # <<>> THEN a.str ELSE b

-----------------------------------------------------------------------------
(* Schemas and form data *)

\* a boolean schema (true): the one schema value with typeof # 'object'
BoolSchema == [bool |-> TRUE]

\* typeof schema === 'object'
IsObject(schema) == "bool" \notin DOMAIN schema

\* a schema without one of its keys ({ key, ...rest } = schema)
Without(schema, key) == [k \in DOMAIN schema \ {key} |-> schema[k]]

\* form data: undefined, a scalar, or an object of named values
FdUndefined == [undef |-> TRUE]
FdScalar == [scalar |-> TRUE]
FdObject(kids) == [obj |-> kids]

\* lodash get(formData, [name]): undefined unless formData is an object
\* holding the key
Get(formData, name) ==
  IF "obj" \in DOMAIN formData /\ name \in DOMAIN formData.obj
  THEN formData.obj[name]
  ELSE FdUndefined

\* deepEquals(a, b): structural equality of two parsed JSON values, key
\* order ignored; TLA+ functions are compared by domain and values
deepEquals(a, b) == a = b

\* the schema-type classifier: an explicit type wins, otherwise object when
\* properties are declared, array when items are, else no type
getSchemaType(schema) ==
  IF "type" \in DOMAIN schema THEN schema.type
  ELSE IF PROPERTIES_KEY \in DOMAIN schema THEN "object"
  ELSE IF ITEMS_KEY \in DOMAIN schema THEN "array"
  ELSE "unknown"

\* REF_KEY in schema || DEPENDENCIES_KEY in schema || ALL_OF_KEY in schema
HasRefKeys(schema) ==
  \/ REF_KEY \in DOMAIN schema
  \/ DEPENDENCIES_KEY \in DOMAIN schema
  \/ ALL_OF_KEY \in DOMAIN schema

-----------------------------------------------------------------------------
(* The schema resolver, retrieveSchema *)

\* the merge policy of allOf and dependencies: properties merge key-wise,
\* on every other key the later fragment wins
mergeSchemas(a, b) ==
  [k \in DOMAIN a \cup DOMAIN b |->
     IF k = PROPERTIES_KEY /\ k \in DOMAIN a /\ k \in DOMAIN b
     THEN b[k] @@ a[k]
     ELSE IF k \in DOMAIN b THEN b[k] ELSE a[k]]

RECURSIVE mergeAll(_, _, _)
\* the fragments of seq from index i on, merged left to right into acc
mergeAll(acc, seq, i) ==
  IF i > Len(seq) THEN acc ELSE mergeAll(mergeSchemas(acc, seq[i]), seq, i + 1)

RECURSIVE mergeFired(_, _, _, _)
\* the dependency schemas whose triggering field is present in formData,
\* merged into acc
mergeFired(acc, deps, todo, formData) ==
  IF todo = {} THEN acc
  ELSE LET t == CHOOSE x \in todo : TRUE
       IN mergeFired(IF Get(formData, t) # FdUndefined
                     THEN mergeSchemas(acc, deps[t]) ELSE acc,
                     deps, todo \ {t}, formData)

\* one expansion step of a node that carries $ref, dependencies or allOf:
\* a reference is replaced by the pointed-to definition (the node's other
\* keys kept on top of it), dependencies that fire are merged in, the allOf
\* branches are merged in
expand(rootSchema, schema, formData) ==
  IF REF_KEY \in DOMAIN schema
  THEN Without(schema, REF_KEY) @@ rootSchema[schema[REF_KEY]]
  ELSE IF DEPENDENCIES_KEY \in DOMAIN schema
  THEN mergeFired(Without(schema, DEPENDENCIES_KEY), schema[DEPENDENCIES_KEY],
                  DOMAIN schema[DEPENDENCIES_KEY], formData)
  ELSE mergeAll(Without(schema, ALL_OF_KEY), schema[ALL_OF_KEY], 1)

\* whether list holds an entry structurally equal to schema
Seen(list, schema) == \E i \in 1..Len(list) : deepEquals(list[i], schema)

RECURSIVE resolve(_, _, _, _)
\* resolve(rootSchema, node, formData, recursionGuard): expand while the
\* node carries a keyword; a computed node already in the guard list is
\* returned as it is
resolve(rootSchema, schema, formData, guard) ==
  IF ~IsObject(schema) \/ ~HasRefKeys(schema) THEN schema
  ELSE LET computed == expand(rootSchema, schema, formData)
       IN IF Seen(guard, computed) THEN computed
          ELSE resolve(rootSchema, computed, formData, Append(guard, computed))

retrieveSchema(schema, rootSchema, formData) ==
  resolve(rootSchema, schema, formData, <<>>)

-----------------------------------------------------------------------------
(* The id tree: a JavaScript object, key -> entry; an entry is a string   *)
(* (the $id) or a nested id tree                                           *)

StrEntry(s) == [str |-> s]
NodeEntry(tree) == [node |-> tree]

\* const idSchema = { $id }
NewIdSchema(sid) == ID_KEY :> StrEntry(sid)

\* String(x), as + applies it to an operand
ToStr(entry) == IF "str" \in DOMAIN entry THEN entry.str ELSE ObjectString

\* idSchema[ID_KEY] + idSeparator + name
FieldIdNoSeparator(idSchema, idSeparator, name) == ToStr(idSchema[ID_KEY]) \o name
FieldId(idSchema, idSeparator, name) ==
  ToStr(idSchema[ID_KEY]) \o idSeparator \o name

\* idSchema[name] = value: an assignment, which replaces a key already there
SetKey(idSchema, name, value) == (name :> NodeEntry(value)) @@ idSchema

-----------------------------------------------------------------------------
(* Arrays are objects: a _recurseList is a reference to one *)

\* [] : a fresh empty array
NewList(h) == [heap |-> Append(h, <<>>), ref |-> Len(h) + 1]

\* the list passed on as it is, nothing added
KeepList(h, ref, item) == [heap |-> h, ref |-> ref]

\* list.push(item), returning the same array: the in-place alternative
PushList(h, ref, item) ==
  [heap |-> [h EXCEPT ![ref] = Append(@, item)], ref |-> ref]

\* _recurseList.concat(_schema): a new array, the old one untouched
ConcatList(h, ref, item) ==
  [heap |-> Append(h, Append(h[ref], item)), ref |-> Len(h) + 1]

\* _recurseList.findIndex((item) => deepEquals(item, _schema)), -1 if none
NeverFound(list, schema) == -1
SameSchemaIndex(list, schema) ==
  IF \E i \in 1..Len(list) : deepEquals(list[i], schema)
  THEN (CHOOSE i \in 1..Len(list) :
          /\ deepEquals(list[i], schema)
          /\ \A j \in 1..(i - 1) : ~deepEquals(list[j], schema)) - 1
  ELSE -1

\* ITEMS_KEY in schema && !get(schema, [ITEMS_KEY, REF_KEY])
\* (a $ref that is the empty string is falsy)
DelegatesAnyItems(schema) == ITEMS_KEY \in DOMAIN schema
DelegatesToItems(schema) ==
  /\ ITEMS_KEY \in DOMAIN schema
  /\ ~(/\ IsObject(schema[ITEMS_KEY])
       /\ REF_KEY \in DOMAIN schema[ITEMS_KEY]
       /\ schema[ITEMS_KEY][REF_KEY] # "")

\* getSchemaType(schema) === 'object' && PROPERTIES_KEY in schema
WalksProperties(schema) ==
  getSchemaType(schema) = "object" /\ PROPERTIES_KEY \in DOMAIN schema

-----------------------------------------------------------------------------
(* The frames of toIdSchemaInternal *)

\* toIdSchema's idPrefix = 'root' and idSeparator = '_' parameters, which
\* every recursive call passes on unchanged
idPrefix == Default(args.idPrefix, DefaultIdPrefix)
idSeparator == Default(args.idSeparator, DefaultIdSeparator)

\* a new activation of toIdSchemaInternal: its parameters, and lines 42-43.
\* via/name say which call site made it; entryList is the value its
\* _recurseList had when the call was made
NewFrameIdIgnored(schema, id, formData, listRef, list, via, name) ==
  [schema |-> schema, id |-> id, formData |-> formData,
   recurseList |-> listRef, entryList |-> list, via |-> via, name |-> name,
   sid |-> idPrefix,
   idSchema |-> NewIdSchema(idPrefix),
   todo |-> {}, pc |-> "start", ret |-> NewIdSchema(<<>>)]
NewFrame(schema, id, formData, listRef, list, via, name) ==
  [schema |-> schema, id |-> id, formData |-> formData,
   recurseList |-> listRef, entryList |-> list, via |-> via, name |-> name,
   sid |-> OrElse(id, idPrefix),
   idSchema |-> NewIdSchema(OrElse(id, idPrefix)),
   todo |-> {}, pc |-> "start", ret |-> NewIdSchema(<<>>)]

Top == stack[Len(stack)]

Running(pc) == phase = "running" /\ stack # <<>> /\ Top.pc = pc

\* line 46: const _schema = retrieveSchema(validator, schema, rootSchema,
\* formData, ...)
Resolved(f) == retrieveSchema(f.schema, args.rootSchema, f.formData)

\* the frame goes on with the node itself (line 62 on): it carries no
\* keyword, or its resolved form is in the guard list
FallsThrough(f) ==
  \/ ~HasRefKeys(f.schema)
  \/ SameSchemaIndex(heap[f.recurseList], Resolved(f)) # -1

\* calls once line 46 has run for the frame: retrieveSchema is called
\* exactly when line 45 finds a keyword
Retrieving(f) == IF HasRefKeys(f.schema) THEN calls \cup {f.schema} ELSE calls

SetTop(f) == [stack EXCEPT ![Len(stack)] = f]

-----------------------------------------------------------------------------
(* The inputs *)

N_a == <<"a">>
N_b == <<"b">>
N_a_b == <<"a", "_", "b">>
PropNames == {N_a, N_b, N_a_b, ID_KEY}

RefA == "#/defs/A"
RefB == "#/defs/B"

StringSchema == [type |-> "string"]
RefSchema(r) == REF_KEY :> r
ObjectSchema(props) == [type |-> "object", properties |-> props]
ArraySchema(items) == [type |-> "array", items |-> items]

\* a node that carries a dependency beside its own properties, and that a
\* definition reaches again below itself
DependentNode ==
  [type |-> "object",
   properties |-> (N_a :> RefSchema(RefB)),
   dependencies |-> (N_b :> [properties |-> (N_b :> StringSchema)])]

\* the root schemas: the definitions $ref resolves against
RootSchemas ==
  { \* a self-referential definition
    (RefA :> RefSchema(RefA)) @@ (RefB :> RefSchema(RefA)),
    \* two definitions that refer to each other
    (RefA :> RefSchema(RefB)) @@ (RefB :> RefSchema(RefA)),
    \* a recursive tree, and an array of it
    (RefA :> ObjectSchema((N_b :> StringSchema) @@ (N_a :> RefSchema(RefA))))
      @@ (RefB :> ArraySchema(RefSchema(RefA))),
    \* two object definitions nested in each other
    (RefA :> ObjectSchema(N_a :> RefSchema(RefB)))
      @@ (RefB :> ObjectSchema(N_b :> RefSchema(RefA))),
    \* plain definitions
    (RefA :> ObjectSchema(N_b :> StringSchema)) @@ (RefB :> StringSchema),
    \* a definition with a property named $id
    (RefA :> ObjectSchema((ID_KEY :> StringSchema) @@ (N_b :> StringSchema)))
      @@ (RefB :> StringSchema),
    \* a node with a dependency that is reached again below itself
    (RefA :> DependentNode) @@ (RefB :> ObjectSchema(N_b :> DependentNode)) }

\* the schemas a generated object declares for its properties
ChildSchemas == {StringSchema, RefSchema(RefA)}

\* the property maps of at most MaxProps properties
PropMaps ==
  UNION { [names -> ChildSchemas] :
            names \in {s \in SUBSET PropNames : Cardinality(s) <= MaxProps} }

\* the property maps of at most one property
SmallMaps == {m \in PropMaps : Cardinality(DOMAIN m) <= 1}

\* the nodes toIdSchema is called on
Nodes ==
  {StringSchema, BoolSchema, RefSchema(RefA), RefSchema(RefB), DependentNode,
   ArraySchema(StringSchema), ArraySchema(RefSchema(RefA)), ArraySchema(BoolSchema),
   ObjectSchema(N_a :> BoolSchema),
   [type |-> "array", items |-> ObjectSchema(N_a :> StringSchema),
    allOf |-> <<[items |-> ObjectSchema(N_b :> StringSchema)]>>]}
  \cup {ObjectSchema(m) : m \in PropMaps}
  \cup {[properties |-> m] : m \in PropMaps}
  \cup {[type |-> "object", properties |-> m, items |-> i] :
          m \in SmallMaps, i \in {StringSchema, RefSchema(RefA)}}
  \cup {[type |-> "object", properties |-> m,
         allOf |-> <<[properties |-> (N_b :> StringSchema)]>>] : m \in SmallMaps}
  \cup {(REF_KEY :> RefA) @@ [properties |-> m] : m \in SmallMaps}

FormDatas == {FdUndefined, FdObject(N_b :> FdObject(N_b :> FdScalar))}

Ids == {Undefined, Some(<<>>), Some(<<"x">>)}
IdPrefixes == {Undefined, Some(<<"p">>)}
IdSeparators == {Undefined, Some(<<".">>)}

\* the id arguments left out, so that the defaults apply
DefaultIds(a) ==
  a.id = Undefined /\ a.idPrefix = Undefined /\ a.idSeparator = Undefined

\* the calls: every node on every root schema; the id and the prefix vary
\* together, the separator and the form data each with the others left out
Args ==
  {a \in [schema : Nodes, id : Ids, rootSchema : RootSchemas,
          formData : FormDatas, idPrefix : IdPrefixes,
          idSeparator : IdSeparators] :
     /\ a.formData # FdUndefined => DefaultIds(a)
     /\ a.idSeparator # Undefined => a.idPrefix = Undefined}

NoWidget == [rendered |-> FALSE]

Init ==
  /\ args \in Args
  /\ phase = "idle"
  /\ stack = <<>>
  /\ heap = <<>>
  /\ calls = {}
  /\ result = <<>>
  /\ wprops = NoWidget
  /\ reports = <<>>

-----------------------------------------------------------------------------
(* toIdSchema and the steps of toIdSchemaInternal *)

\* toIdSchema (lines 110-131): the call of toIdSchemaInternal, with
\* undefined for _recurseList, whose default is a fresh []
toIdSchema ==
  /\ phase = "idle"
  /\ LET l == NewList(heap)
     IN /\ heap' = l.heap
        /\ stack' = <<NewFrame(args.schema, args.id, args.formData,
                               l.ref, l.heap[l.ref], "top", <<>>)>>
  /\ phase' = "running"
  /\ UNCHANGED <<args, calls, result, wprops, reports>>

\* line 44 false: the schema is no object; line 95 returns { $id }
ReturnNotObject ==
  /\ Running("start")
  /\ ~IsObject(Top.schema)
  /\ stack' = SetTop([Top EXCEPT !.pc = "return", !.ret = Top.idSchema])
  /\ UNCHANGED <<args, phase, heap, calls, result, wprops, reports>>

\* lines 45-59: the node carries a keyword and its resolved form is not in
\* the guard list: recurse into the resolved schema with the list extended
ResolveCall ==
  /\ Running("start")
  /\ Len(stack) < MaxStack
  /\ IsObject(Top.schema)
  /\ HasRefKeys(Top.schema)
  /\ LET _schema == Resolved(Top)
     IN /\ SameSchemaIndex(heap[Top.recurseList], _schema) = -1
        /\ LET l == ConcatList(heap, Top.recurseList, _schema)
           IN /\ heap' = l.heap
              /\ stack' = Append(SetTop([Top EXCEPT !.pc = "await"]),
                                 NewFrame(_schema, Top.id, Top.formData,
                                          l.ref, l.heap[l.ref], "resolve", <<>>))
  /\ calls' = calls \cup {Top.schema}
  /\ UNCHANGED <<args, phase, result, wprops, reports>>

\* lines 62-73: the node has items that are no bare reference: recurse
\* into the item schema, same id, same form data, same guard list
DelegateItems ==
  /\ Running("start")
  /\ Len(stack) < MaxStack
  /\ IsObject(Top.schema)
  /\ FallsThrough(Top)
  /\ DelegatesToItems(Top.schema)
  /\ stack' = Append(SetTop([Top EXCEPT !.pc = "await"]),
                     NewFrame(Top.schema[ITEMS_KEY], Top.id, Top.formData,
                              Top.recurseList, heap[Top.recurseList], "items", <<>>))
  /\ calls' = Retrieving(Top)
  /\ UNCHANGED <<args, phase, heap, result, wprops, reports>>

\* lines 75-76: an object with properties: start the for-in loop
EnterProperties ==
  /\ Running("start")
  /\ IsObject(Top.schema)
  /\ FallsThrough(Top)
  /\ ~DelegatesToItems(Top.schema)
  /\ WalksProperties(Top.schema)
  /\ stack' = SetTop([Top EXCEPT !.pc = "loop",
                                 !.todo = DOMAIN Top.schema[PROPERTIES_KEY]])
  /\ calls' = Retrieving(Top)
  /\ UNCHANGED <<args, phase, heap, result, wprops, reports>>

\* line 75 false: nothing to descend into; line 95 returns { $id }
ReturnLeaf ==
  /\ Running("start")
  /\ IsObject(Top.schema)
  /\ FallsThrough(Top)
  /\ ~DelegatesToItems(Top.schema)
  /\ ~WalksProperties(Top.schema)
  /\ stack' = SetTop([Top EXCEPT !.pc = "return", !.ret = Top.idSchema])
  /\ calls' = Retrieving(Top)
  /\ UNCHANGED <<args, phase, heap, result, wprops, reports>>

\* lines 76-91, one iteration: the call for the next property (the order
\* is the schema's declaration order, any order here)
PropertyCall ==
  /\ Running("loop")
  /\ Len(stack) < MaxStack
  /\ \E name \in Top.todo :
       LET field == Top.schema[PROPERTIES_KEY][name]
           fieldId == FieldId(Top.idSchema, idSeparator, name)
       IN stack' = Append(SetTop([Top EXCEPT !.pc = "await", !.todo = @ \ {name}]),
                          NewFrame(field, Some(fieldId), Get(Top.formData, name),
                                   Top.recurseList, heap[Top.recurseList],
                                   "property", name))
  /\ UNCHANGED <<args, phase, heap, calls, result, wprops, reports>>

\* the loop is over: line 95 returns idSchema
ReturnObject ==
  /\ Running("loop")
  /\ Top.todo = {}
  /\ stack' = SetTop([Top EXCEPT !.pc = "return", !.ret = Top.idSchema])
  /\ UNCHANGED <<args, phase, heap, calls, result, wprops, reports>>

\* the item tree hung under a key of a node made for the array itself
ReceiveWrapped(parent, child) ==
  IF child.via = "property"
  THEN [parent EXCEPT !.pc = "loop",
                      !.idSchema = SetKey(parent.idSchema, child.name, child.ret)]
  ELSE IF child.via = "items"
  THEN [parent EXCEPT !.pc = "return",
                      !.ret = SetKey(parent.idSchema, <<"i", "t", "e", "m", "s">>, child.ret)]
  ELSE [parent EXCEPT !.pc = "return", !.ret = child.ret]

\* what the caller does with the value a call returned: lines 49 and 63
\* return it, line 79 assigns it to idSchema[name]
Receive(parent, child) ==
  IF child.via = "property"
  THEN [parent EXCEPT !.pc = "loop",
                      !.idSchema = SetKey(parent.idSchema, child.name, child.ret)]
  ELSE [parent EXCEPT !.pc = "return", !.ret = child.ret]

\* a return: the frame is popped and its caller goes on
Return ==
  /\ Running("return")
  /\ IF Len(stack) = 1
     THEN /\ stack' = <<>>
          /\ result' = Top.ret
          /\ phase' = "done"
     ELSE /\ stack' = [SubSeq(stack, 1, Len(stack) - 1) EXCEPT
                         ![Len(stack) - 1] = Receive(stack[Len(stack) - 1], Top)]
          /\ UNCHANGED <<result, phase>>
  /\ UNCHANGED <<args, heap, calls, wprops, reports>>

Next ==
  \/ toIdSchema
  \/ ReturnNotObject
  \/ ResolveCall
  \/ DelegateItems
  \/ EnterProperties
  \/ ReturnLeaf
  \/ PropertyCall
  \/ ReturnObject
  \/ Return

Spec == Init /\ [][Next]_vars

\* the calls that leave the id arguments out
InitDefaultIds == Init /\ DefaultIds(args)

\* the call runs to its end: nothing suspends a synchronous call
FairSpec == InitDefaultIds /\ [][Next]_vars /\ WF_vars(Next)

-----------------------------------------------------------------------------
(* The widgets: SelectWidget (antd) and RadioWidget (mui) *)

\* the enum options a widget is rendered with: option i has value i
EnumOptions == [i \in 1..MaxEnum |-> [value |-> i, label |-> i]]

\* the value reported when nothing is selected
EmptyValue == 0

\* the indexes a control hands back: -1 stands for '' or no value
Indexes == -1..(MaxEnum - 1)

\* enumOptionsValueForIndex(valueIndex, enumOptions, emptyValue): the value
\* of the option at the index, emptyValue when there is none
enumOptionsValueForIndex(valueIndex, enumOptions, emptyValue) ==
  IF valueIndex + 1 \in DOMAIN enumOptions
  THEN enumOptions[valueIndex + 1].value
  ELSE emptyValue

\* a call of one of the caller-supplied callbacks, with its arguments
Report(callback, arguments) == [cb |-> callback, args |-> arguments]

\* SelectWidget line 48: onChange(enumOptionsValueForIndex(nextValue, ...))
handleChange(p, nextValue) ==
  Report("onChange", <<[value |-> enumOptionsValueForIndex(nextValue, p.enumOptions, p.emptyValue)]>>)

\* SelectWidget line 50: onBlur(id, enumOptionsValueForIndex(value, ...))
handleBlurNoId(p) ==
  Report("onBlur", <<[value |-> enumOptionsValueForIndex(p.value, p.enumOptions, p.emptyValue)]>>)
handleBlur(p) ==
  Report("onBlur", <<[id |-> p.id],
                     [value |-> enumOptionsValueForIndex(p.value, p.enumOptions, p.emptyValue)]>>)

\* SelectWidget line 52: onFocus(id, enumOptionsValueForIndex(value, ...))
handleFocus(p) ==
  Report("onFocus", <<[id |-> p.id],
                      [value |-> enumOptionsValueForIndex(p.value, p.enumOptions, p.emptyValue)]>>)

\* RadioWidget line 38: onChange(enumOptionsValueForIndex(value, ...))
_onChange(p, value) ==
  Report("onChange", <<[value |-> enumOptionsValueForIndex(value, p.enumOptions, p.emptyValue)]>>)

\* RadioWidget lines 39-40: onBlur(id, enumOptionsValueForIndex(target.value, ...))
_onBlur(p, targetValue) ==
  Report("onBlur", <<[id |-> p.id],
                     [value |-> enumOptionsValueForIndex(targetValue, p.enumOptions, p.emptyValue)]>>)

\* RadioWidget lines 41-42: onFocus(id, enumOptionsValueForIndex(target.value, ...))
_onFocus(p, targetValue) ==
  Report("onFocus", <<[id |-> p.id],
                      [value |-> enumOptionsValueForIndex(targetValue, p.enumOptions, p.emptyValue)]>>)

\* the ids a widget is rendered with: ids the builder derives
WidgetIds == {DefaultIdPrefix, DefaultIdPrefix \o DefaultIdSeparator \o N_a}

\* the props of a rendered widget
WidgetProps ==
  [rendered : {TRUE}, widget : {"SelectWidget", "RadioWidget"}, id : WidgetIds,
   readonly : BOOLEAN, value : Indexes, enumOptions : {EnumOptions},
   emptyValue : {EmptyValue}]

\* the builder at rest while a widget session runs
IdleArgs ==
  [schema |-> StringSchema, id |-> Undefined,
   rootSchema |-> (RefA :> StringSchema) @@ (RefB :> StringSchema),
   formData |-> FdUndefined, idPrefix |-> Undefined, idSeparator |-> Undefined]

InitWidget ==
  /\ args = IdleArgs
  /\ phase = "idle"
  /\ stack = <<>>
  /\ heap = <<>>
  /\ calls = {}
  /\ result = <<>>
  /\ wprops \in WidgetProps
  /\ reports = <<>>

\* the widget calls back; the form and the builder are not touched
Calls(report) ==
  /\ Len(reports) < MaxReports
  /\ reports' = Append(reports, report)
  /\ UNCHANGED <<args, phase, stack, heap, calls, result, wprops>>

\* SelectWidget lines 98-100: a read-only Select gets no handlers
SelectChange ==
  /\ wprops.widget = "SelectWidget" /\ ~wprops.readonly
  /\ \E nextValue \in Indexes : Calls(handleChange(wprops, nextValue))

SelectBlur ==
  /\ wprops.widget = "SelectWidget" /\ ~wprops.readonly
  /\ Calls(handleBlur(wprops))

SelectFocus ==
  /\ wprops.widget = "SelectWidget" /\ ~wprops.readonly
  /\ Calls(handleFocus(wprops))

\* RadioWidget lines 60-62: the RadioGroup's handlers
RadioChange ==
  /\ wprops.widget = "RadioWidget"
  /\ \E value \in Indexes : Calls(_onChange(wprops, value))

RadioBlur ==
  /\ wprops.widget = "RadioWidget"
  /\ \E targetValue \in Indexes : Calls(_onBlur(wprops, targetValue))

RadioFocus ==
  /\ wprops.widget = "RadioWidget"
  /\ \E targetValue \in Indexes : Calls(_onFocus(wprops, targetValue))

NextWidget ==
  \/ SelectChange
  \/ SelectBlur
  \/ SelectFocus
  \/ RadioChange
  \/ RadioBlur
  \/ RadioFocus

WidgetSpec == InitWidget /\ [][NextWidget]_vars

-----------------------------------------------------------------------------
(* Properties of the widgets' reports *)

\* a report is keyed by the widget's field id: the id comes first, the
\* reported value second
KeyedById(r) ==
  /\ Len(r.args) = 2
  /\ "id" \in DOMAIN r.args[1] /\ r.args[1].id = wprops.id
  /\ "value" \in DOMAIN r.args[2]

\* C7 as stated: every change, blur and focus report passes the widget's
\* field id to the callback together with the reported value
C7_EveryReportKeyed ==
  \A i \in DOMAIN reports : KeyedById(reports[i])

\* C7 as amended: every blur and focus report passes the widget's field id
\* together with the reported value; a change report passes the value
\* alone, without the id
C7_BlurFocusKeyed ==
  \A i \in DOMAIN reports :
    IF reports[i].cb \in {"onBlur", "onFocus"}
    THEN KeyedById(reports[i])
    ELSE /\ reports[i].cb = "onChange"
         /\ Len(reports[i].args) = 1
         /\ "value" \in DOMAIN reports[i].args[1]

\* a session in which the widget reported a change, a blur and a focus
C7_Witness ==
  /\ \E i \in DOMAIN reports : reports[i].cb = "onChange"
  /\ \E i \in DOMAIN reports : reports[i].cb = "onBlur"
  /\ \E i \in DOMAIN reports : reports[i].cb = "onFocus"

-----------------------------------------------------------------------------
(* Properties of the id-tree builder *)

Frames == DOMAIN stack

\* the caller of frame i and the frames below it exist for i > 1
Caller(i) == stack[i - 1]

Done == phase = "done"

\* a base id that counts as supplied: a string that is not empty (id ||
\* idPrefix takes undefined and '' alike as none)
Supplied(id) == "str" \in DOMAIN id /\ id.str # <<>>

C8_GuardListByValue ==
  \A i \in Frames :
    LET f == stack[i]
    IN /\ heap[f.recurseList] = f.entryList
       /\ i > 1 =>
            IF f.via = "resolve"
            THEN /\ f.recurseList # Caller(i).recurseList
                 /\ f.entryList = Append(Caller(i).entryList, f.schema)
            ELSE /\ f.via \in {"property", "items"}
                 /\ f.recurseList = Caller(i).recurseList
                 /\ f.entryList = Caller(i).entryList

\* a property child is called after an earlier sibling's subtree resolved a
\* schema (a longer list was made from the caller's list)
C8_Witness ==
  /\ stack # <<>>
  /\ Top.via = "property" /\ Top.pc = "start"
  /\ \E r \in DOMAIN heap :
       /\ r > Top.recurseList
       /\ Len(heap[r]) > Len(heap[Top.recurseList])
       /\ SubSeq(heap[r], 1, Len(heap[Top.recurseList])) = heap[Top.recurseList]

\* the entries of a list are pairwise structurally distinct
PairwiseDistinct(list) ==
  \A j, k \in 1..Len(list) : j # k => list[j] # list[k]

\* C10: the guard list of the top-level call is empty; a list grows only by
\* one schema that retrieveSchema just returned and that equals no entry
\* of the list; so every list holds pairwise distinct entries; a node
\* without $ref, dependencies or allOf causes no retrieveSchema call and
\* no longer list
C10_GuardListGrowth ==
  /\ \A i \in Frames :
       LET f == stack[i]
           list == heap[f.recurseList]
       IN /\ i = 1 => list = <<>>
          /\ PairwiseDistinct(list)
          /\ i > 1 =>
               LET c == Caller(i)
                   clist == heap[c.recurseList]
               IN IF f.via = "resolve"
                  THEN /\ REF_KEY \in DOMAIN c.schema
                            \/ DEPENDENCIES_KEY \in DOMAIN c.schema
                            \/ ALL_OF_KEY \in DOMAIN c.schema
                       /\ f.schema = retrieveSchema(c.schema, args.rootSchema, c.formData)
                       /\ list = Append(clist, f.schema)
                       /\ \A j \in 1..Len(clist) : clist[j] # f.schema
                  ELSE list = clist
  /\ \A s \in calls :
       \/ REF_KEY \in DOMAIN s
       \/ DEPENDENCIES_KEY \in DOMAIN s
       \/ ALL_OF_KEY \in DOMAIN s
  /\ \A r \in DOMAIN heap : PairwiseDistinct(heap[r])

\* a call whose guard list holds two schemas, made below a node that
\* carries no keyword
C10_Witness ==
  /\ stack # <<>>
  /\ Len(heap[Top.recurseList]) >= 2
  /\ \E i \in Frames : ~HasRefKeys(stack[i].schema) /\ stack[i].pc = "await"

\* the call found the resolved form of its node in its guard list (lines
\* 45-48 with sameSchemaIndex # -1)
CycleDetected(f) ==
  /\ IsObject(f.schema)
  /\ HasRefKeys(f.schema)
  /\ \E j \in 1..Len(f.entryList) :
       f.entryList[j] = retrieveSchema(f.schema, args.rootSchema, f.formData)

\* the call goes on with its own node: the node carries no keyword, or
\* its resolved form is in the guard list
OwnNode(f) ==
  /\ IsObject(f.schema)
  /\ ~HasRefKeys(f.schema) \/ CycleDetected(f)

\* the item schema is a bare reference: an object with a non-empty $ref
BareRefItems(schema) ==
  /\ ITEMS_KEY \in DOMAIN schema
  /\ IsObject(schema[ITEMS_KEY])
  /\ REF_KEY \in DOMAIN schema[ITEMS_KEY]
  /\ schema[ITEMS_KEY][REF_KEY] # ""

\* C1: the call never runs out of stack, and it ends: toIdSchema returns an
\* id tree, which has a $id
C1_Terminates ==
  /\ [](Len(stack) < MaxStack)
  /\ <>(Done /\ result # <<>> /\ ID_KEY \in DOMAIN result)

\* the call returned on a self-referential definition, and on two
\* definitions that refer to each other
C1_Witness ==
  /\ Done
  /\ args.schema = RefSchema(RefA)
  /\ args.rootSchema[RefA] \in {RefSchema(RefA), RefSchema(RefB)}
  /\ result = (ID_KEY :> [str |-> <<"r", "o", "o", "t">>])

\* C2 as stated: a call that finds the resolved form of its node in the
\* guard list makes no further call at all, and returns { $id } alone
C2_NoFurtherCall ==
  \A i \in Frames :
    CycleDetected(stack[i]) =>
      /\ i = Len(stack)
      /\ stack[i].pc = "return" => stack[i].ret = (ID_KEY :> [str |-> stack[i].sid])

\* C2 as amended: a call that finds the resolved form of its node in the
\* guard list makes no call on the resolved schema; it goes on with the
\* node itself, so a call it makes is one on the node's own items or
\* properties; when the node has neither items to delegate to nor
\* properties of an object, it makes no call and returns { $id } alone
C2_NoCallOnResolved ==
  \A i \in Frames :
    LET f == stack[i]
    IN CycleDetected(f) =>
         /\ i < Len(stack) =>
              /\ stack[i + 1].via \in {"items", "property"}
              /\ stack[i + 1].via = "items" => stack[i + 1].schema = f.schema[ITEMS_KEY]
              /\ stack[i + 1].via = "property"
                   => stack[i + 1].schema = f.schema[PROPERTIES_KEY][stack[i + 1].name]
              /\ stack[i + 1].entryList = f.entryList
         /\ (/\ ~(ITEMS_KEY \in DOMAIN f.schema /\ ~BareRefItems(f.schema))
             /\ ~(getSchemaType(f.schema) = "object" /\ PROPERTIES_KEY \in DOMAIN f.schema))
              => /\ i = Len(stack)
                 /\ f.pc \in {"start", "return"}
                 /\ f.pc = "return" => f.ret = (ID_KEY :> [str |-> f.sid])

\* a bare reference whose resolved form is in the guard list has returned
\* { $id }, and so did the whole call on a self-referential definition
C2_Witness ==
  /\ stack # <<>>
  /\ CycleDetected(Top)
  /\ Top.pc = "return"
  /\ Len(Top.entryList) >= 1

RECURSIVE IdsAt(_, _)
\* the $id strings of an id tree, each with the path of keys to its node
IdsAt(tree, path) ==
  (IF "str" \in DOMAIN tree[ID_KEY]
   THEN {<<path, tree[ID_KEY].str>>}
   ELSE IdsAt(tree[ID_KEY].node, Append(path, ID_KEY)))
  \cup UNION {IdsAt(tree[k].node, Append(path, k)) : k \in DOMAIN tree \ {ID_KEY}}

\* no two nodes of the tree carry the same $id string
DistinctIds(tree) ==
  \A p, q \in IdsAt(tree, <<>>) : p[2] = q[2] => p[1] = q[1]

RECURSIVE NamesIn(_)
\* the property names a schema declares, at any depth
NamesIn(schema) ==
  IF ~IsObject(schema) THEN {}
  ELSE (IF PROPERTIES_KEY \in DOMAIN schema
        THEN DOMAIN schema[PROPERTIES_KEY]
             \cup UNION {NamesIn(schema[PROPERTIES_KEY][n]) : n \in DOMAIN schema[PROPERTIES_KEY]}
        ELSE {})
       \cup (IF ITEMS_KEY \in DOMAIN schema THEN NamesIn(schema[ITEMS_KEY]) ELSE {})
       \cup (IF ALL_OF_KEY \in DOMAIN schema
             THEN UNION {NamesIn(schema[ALL_OF_KEY][j]) : j \in DOMAIN schema[ALL_OF_KEY]}
             ELSE {})
       \cup (IF DEPENDENCIES_KEY \in DOMAIN schema
             THEN UNION {NamesIn(schema[DEPENDENCIES_KEY][n]) : n \in DOMAIN schema[DEPENDENCIES_KEY]}
             ELSE {})

\* the property names of the call's schema and of the root's definitions
NamesOfCall ==
  NamesIn(args.schema)
    \cup UNION {NamesIn(args.rootSchema[r]) : r \in DOMAIN args.rootSchema}

\* the string s holds the string part somewhere in it
Contains(s, part) ==
  \E j \in 0..(Len(s) - Len(part)) : SubSeq(s, j + 1, j + Len(part)) = part

\* C3 as stated: whatever the property names, the prefix and the separator,
\* the $id strings of the returned tree are pairwise distinct
C3_IdsDistinct ==
  Done => DistinctIds(result)

\* C3 as amended: when the separator is one character that occurs in no
\* property name, and no property is named $id, the $id strings of the
\* returned tree are pairwise distinct
C3_IdsDistinctNoSeparatorInNames ==
  (/\ Done
   /\ Len(idSeparator) = 1
   /\ \A n \in NamesOfCall : ~Contains(n, idSeparator) /\ n # ID_KEY)
    => DistinctIds(result)

\* a returned tree with ids two levels deep, under the default separator
C3_Witness ==
  /\ Done
  /\ args.idSeparator = Undefined
  /\ \A n \in NamesOfCall : ~Contains(n, idSeparator) /\ n # ID_KEY
  /\ \E p \in IdsAt(result, <<>>) : Len(p[1]) = 2
  /\ Cardinality(IdsAt(result, <<>>)) >= 4

\* a node that classifies as object and has properties
ObjectNode(f) ==
  /\ IsObject(f.schema)
  /\ getSchemaType(f.schema) = "object"
  /\ PROPERTIES_KEY \in DOMAIN f.schema

\* C4 as stated: every node that classifies as object and has properties
\* comes back with exactly $id, the node's own id, plus one key per
\* property, each child's $id being parent $id + separator + name,
\* whatever the property names and also when the node has an items key
C4_EveryObjectNode ==
  \A i \in Frames :
    LET f == stack[i]
    IN (ObjectNode(f) /\ f.pc = "return")
         => /\ DOMAIN f.ret = {ID_KEY} \cup DOMAIN f.schema[PROPERTIES_KEY]
            /\ f.ret[ID_KEY] = [str |-> f.sid]
            /\ \A n \in DOMAIN f.schema[PROPERTIES_KEY] :
                 /\ "node" \in DOMAIN f.ret[n]
                 /\ f.ret[n].node[ID_KEY] = [str |-> f.sid \o idSeparator \o n]

\* C4 as amended: the same, for a node the call goes on with itself (it
\* carries no $ref, dependencies or allOf, or its resolved form is in the
\* guard list), that has no items the call delegates to (no items key, or
\* items that are a bare reference) and no property named $id; a child's
\* $id is parent $id + separator + name unless the child's own node has a
\* property named $id, which replaces it
C4_ObjectNodeNoItemsNoIdName ==
  \A i \in Frames :
    LET f == stack[i]
    IN (/\ ObjectNode(f)
        /\ OwnNode(f)
        /\ f.pc = "return"
        /\ ~(ITEMS_KEY \in DOMAIN f.schema /\ ~BareRefItems(f.schema))
        /\ ID_KEY \notin DOMAIN f.schema[PROPERTIES_KEY])
         => /\ DOMAIN f.ret = {ID_KEY} \cup DOMAIN f.schema[PROPERTIES_KEY]
            /\ f.ret[ID_KEY] = [str |-> f.sid]
            /\ \A n \in DOMAIN f.schema[PROPERTIES_KEY] :
                 /\ "node" \in DOMAIN f.ret[n]
                 /\ "str" \in DOMAIN f.ret[n].node[ID_KEY]
                      => f.ret[n].node[ID_KEY].str = f.sid \o idSeparator \o n

\* an object node with a property, and items that are a bare reference,
\* has returned
C4_Witness ==
  \E i \in Frames :
    /\ ObjectNode(stack[i])
    /\ OwnNode(stack[i])
    /\ stack[i].pc = "return"
    /\ BareRefItems(stack[i].schema)
    /\ ID_KEY \notin DOMAIN stack[i].schema[PROPERTIES_KEY]
    /\ Cardinality(DOMAIN stack[i].ret) >= 2

\* the node has items that are no bare reference
PlainItems(schema) == ITEMS_KEY \in DOMAIN schema /\ ~BareRefItems(schema)

\* the call made for the top frame's node is one on its item schema, with
\* the same id, the same form data and the same guard list
CallsItemSchema ==
  /\ Len(stack') = Len(stack) + 1
  /\ stack'[Len(stack)].pc = "await"
  /\ LET f == Top
         c == stack'[Len(stack')]
     IN /\ c.via = "items"
        /\ c.schema = f.schema[ITEMS_KEY]
        /\ c.id = f.id /\ c.sid = f.sid
        /\ c.formData = f.formData
        /\ c.recurseList = f.recurseList
        /\ heap' = heap
        /\ c.idSchema = (ID_KEY :> [str |-> f.sid])

\* what the call on the item schema returns is what the caller returns
ReturnsItemTree ==
  (stack # <<>> /\ Len(stack) > 1 /\ Top.pc = "return" /\ Top.via = "items"
     /\ stack' # stack)
    => /\ Len(stack') = Len(stack) - 1
       /\ stack'[Len(stack')].pc = "return"
       /\ stack'[Len(stack')].ret = Top.ret

\* C5 as stated: every call on a node with items that are no bare reference
\* is answered by the call on the item schema, same id, same form data,
\* same guard list
C5_EveryItemsNode ==
  [][/\ (stack # <<>> /\ Top.pc = "start" /\ IsObject(Top.schema)
           /\ PlainItems(Top.schema) /\ stack' # stack)
          => CallsItemSchema
     /\ ReturnsItemTree]_vars

\* C5 as amended: a call on a node with items that are no bare reference,
\* when the node carries no $ref, dependencies or allOf or its resolved
\* form is in the guard list, is answered by the call on the item schema,
\* same id, same form data, same guard list, with no id segment added
C5_ItemsOfOwnNode ==
  [][/\ (stack # <<>> /\ Top.pc = "start" /\ OwnNode(Top)
           /\ PlainItems(Top.schema) /\ stack' # stack)
          => CallsItemSchema
     /\ ReturnsItemTree]_vars

\* an array of objects has returned the tree of its item schema: the
\* properties of the item under the array's own id
C5_Witness ==
  /\ stack # <<>>
  /\ Top.pc = "return"
  /\ OwnNode(Top)
  /\ PlainItems(Top.schema)
  /\ PROPERTIES_KEY \in DOMAIN Top.schema[ITEMS_KEY]
  /\ DOMAIN Top.ret = {ID_KEY} \cup DOMAIN Top.schema[ITEMS_KEY][PROPERTIES_KEY]
  /\ Cardinality(DOMAIN Top.ret) = 2

\* no call is made on the item schema of a node whose items are a bare
\* reference
NoCallOnBareRefItems ==
  \A i \in Frames :
    (OwnNode(stack[i]) /\ BareRefItems(stack[i].schema) /\ i < Len(stack))
      => /\ stack[i + 1].via = "property"
         /\ getSchemaType(stack[i].schema) = "object"
         /\ PROPERTIES_KEY \in DOMAIN stack[i].schema

\* C9 as stated: for a node whose items are a bare reference the call does
\* not delegate to the item schema, and the item reference is resolved by
\* retrieveSchema
C9_ItemRefResolved ==
  /\ NoCallOnBareRefItems
  /\ (Done /\ IsObject(args.schema) /\ ~HasRefKeys(args.schema)
        /\ BareRefItems(args.schema))
       => args.schema[ITEMS_KEY] \in calls

\* C9 as amended: for a node whose items are a bare reference the call
\* does not delegate to the item schema and makes no call on it at all: it
\* goes on to the node's properties if it is an object with properties and
\* returns { $id } alone otherwise, and retrieveSchema is not called for
\* the item reference
C9_ItemRefNotVisited ==
  /\ NoCallOnBareRefItems
  /\ \A i \in Frames :
       LET f == stack[i]
       IN (/\ OwnNode(f) /\ BareRefItems(f.schema)
           /\ ~(getSchemaType(f.schema) = "object" /\ PROPERTIES_KEY \in DOMAIN f.schema)
           /\ f.pc = "return")
            => f.ret = (ID_KEY :> [str |-> f.sid])
  /\ (/\ Done /\ IsObject(args.schema) /\ ~HasRefKeys(args.schema)
      /\ BareRefItems(args.schema)
      /\ ~(getSchemaType(args.schema) = "object" /\ PROPERTIES_KEY \in DOMAIN args.schema))
       => /\ calls = {}
          /\ Len(heap) = 1
          /\ DOMAIN result = {ID_KEY}

\* the call on an array of references has returned, the definition being
\* an object with properties
C9_Witness ==
  /\ Done
  /\ args.schema = ArraySchema(RefSchema(RefA))
  /\ PROPERTIES_KEY \in DOMAIN args.rootSchema[RefA]
  /\ DOMAIN result = {ID_KEY}

====
